---- MODULE Spec2Model ----
(***************************************************************************)
(* Inspection layer of autodoc_pydantic                                    *)
(* (sphinxcontrib/autodoc_pydantic/inspection.py): the validator/field     *)
(* cross-reference set of a pydantic model class, the JSON-schema          *)
(* sanitising, and the process-wide wrapper cache ModelWrapper.CACHED.     *)
(*                                                                         *)
(* Python values are modelled as follows.                                  *)
(*   - an object is a record of `heap`, addressed by its id();             *)
(*   - a dict is a function whose DOMAIN is its key set;                   *)
(*   - a call that may raise returns [exc, val]: exc = "none" and the      *)
(*     value, or the exception's class name;                               *)
(*   - f-strings are string concatenation.                                 *)
(***************************************************************************)
EXTENDS Integers, Sequences, FiniteSets, TLC

VARIABLES
    heap,      \* id -> the live Python object at that id (the loaded classes)
    CACHED,    \* ModelWrapper.CACHED: id(model) -> ModelWrapper instance
    created,   \* number of ModelWrapper instances constructed so far
    result,    \* outcome of the last call made by the documentation build
    log,       \* warnings logged so far (sphinx logger)
    rebinds    \* number of in-place changes made to a loaded class

vars == <<heap, CACHED, created, result, log, rebinds>>

----------------------------------------------------------------------------
(* Bounds *)

MaxWrappers == 3    \* cap on ModelWrapper instances ever constructed
MaxLog == 2         \* cap on logged warnings
MaxRebinds == 2     \* cap on in-place changes of a loaded class

FieldNames == {"a", "b"}
ValidatorNames == {"v", "w"}
Targets == FieldNames \cup {"*"}

----------------------------------------------------------------------------
(* Exceptions and dicts *)

Ok(v) == [exc |-> "none", val |-> v]

Raise(e) == [exc |-> e, val |-> {}]

Raises(r) == r.exc # "none"

\* r's value handed to F, or r's exception propagated
Bind(r, F(_)) == IF Raises(r) THEN r ELSE F(r.val)

\* d.get(k, default)
Get(d, k, default) == IF k \in DOMAIN d THEN d[k] ELSE default

\* d[k] = v
Put(d, k, v) == [x \in DOMAIN d \cup {k} |-> IF x = k THEN v ELSE d[x]]

\* an iteration order of a set (Python set/dict iteration), without repeats
RECURSIVE Listing(_)
Listing(S) ==
    IF S = {} THEN <<>>
    ELSE LET x == CHOOSE y \in S : TRUE IN <<x>> \o Listing(S \ {x})

Range(s) == {s[i] : i \in DOMAIN s}

----------------------------------------------------------------------------
(* pydantic objects read by the inspectors *)

\* class_validators.Validator wrapper around the function named n
Wrapper(n) == [func |-> n]

\* an entry of __pre_root_validators__: the bare function
PreRootEntry(n) == [py |-> "function", name |-> n, skip |-> FALSE]

\* an entry of __post_root_validators__: the tuple (skip_on_failure, function)
PostRootEntry(n) == [py |-> "tuple", name |-> n, skip |-> FALSE]

\* fields.ModelField: the inner type and the default
Info(t, d) == [type_ |-> t, default |-> d]

IntField == Info("int", "1")
CustomField == Info("Custom", "None")
CustomDefaultField == Info("Custom", "Custom()")
FieldInfos == {IntField, CustomField, CustomDefaultField}

None == [kind |-> "None", module |-> "builtins", name |-> "None",
         fields |-> <<>>, info |-> <<>>, validators |-> <<>>,
         pre_root |-> {}, post_root |-> {}, mro |-> <<>>,
         schema_extra |-> "none"]

PlainClass(mod, nm) ==
    [kind |-> "class", module |-> mod, name |-> nm,
     fields |-> <<>>, info |-> <<>>, validators |-> <<>>,
     pre_root |-> {}, post_root |-> {}, mro |-> <<>>,
     schema_extra |-> "none"]

\* a BaseModel subclass: __module__, __name__, __fields__ (ordered),
\* __validators__, __pre_root_validators__, __post_root_validators__, and
\* the ids of the models it inherits from (those of its __mro__)
Model(mod, nm, fs, inf, vals, pre, post) ==
    [kind |-> "model", module |-> mod, name |-> nm,
     fields |-> fs, info |-> inf, validators |-> vals,
     pre_root |-> pre, post_root |-> post, mro |-> <<>>,
     schema_extra |-> "none"]

\* the same class with a Config.schema_extra hook that raises this error
\* whenever the schema of the class is generated
WithSchemaExtra(model, error) == [model EXCEPT !.schema_extra = error]

\* the same class, declared as a subclass of the models of these ids
Subclass(model, base_ids) == [model EXCEPT !.mro = base_ids]

----------------------------------------------------------------------------
(* ValidatorFieldMap *)

ValidatorFieldMap(f, v, ast, path) ==
    [field |-> f, validator |-> v, is_asterisk |-> ast, model_path |-> path]

_get_ref_no_path(self, name) == name

_get_ref(self, name) == self.model_path \o "." \o name

field_ref_never_asterisk(self) == _get_ref(self, self.field)

field_ref(self) ==
    IF self.is_asterisk THEN self.model_path ELSE _get_ref(self, self.field)

validator_ref(self) == _get_ref(self, self.validator)

----------------------------------------------------------------------------
(* StaticInspector *)

is_pydantic_model(obj) == obj.kind = "model"

----------------------------------------------------------------------------
(* ValidatorInspector *)

get_names_from_wrappers(validators) == {w.func : w \in validators}

\* validator[1].__name__ : only a tuple can be subscripted
get_name_from_root(validators) ==
    IF \E w \in validators : w.py # "tuple"
    THEN Raise("TypeError")
    ELSE Ok({w.name : w \in validators})

names_root_validators(model) ==
    LET pre_root == get_name_from_root(model.pre_root)
        post_root == get_name_from_root(model.post_root)
    IN  IF Raises(pre_root) THEN pre_root
        ELSE IF Raises(post_root) THEN post_root
        ELSE Ok(pre_root.val \cup post_root.val)

names_asterisk_validators(model) ==
    LET asterisk_validators == Get(model.validators, "*", {})
        asterisk == get_names_from_wrappers(asterisk_validators)
        union(root) == Ok(asterisk \cup root)
    IN  Bind(names_root_validators(model), union)

names_standard_validators(model) ==
    LET validator_wrappers ==
            UNION {model.validators[k] : k \in DOMAIN model.validators}
        names_all_validators == get_names_from_wrappers(validator_wrappers)
        difference(ast) == Ok(names_all_validators \ ast)
    IN  Bind(names_asterisk_validators(model), difference)

names_without_asterisk(model) == names_standard_validators(model)

names(model) ==
    LET asterisks == names_asterisk_validators(model)
        standard == names_standard_validators(model)
    IN  IF Raises(asterisks) THEN asterisks
        ELSE IF Raises(standard) THEN standard
        ELSE Ok(asterisks.val \cup standard.val)

is_asterisk(model, name) ==
    LET member(ast) == Ok(name \in ast)
    IN  Bind(names_asterisk_validators(model), member)

----------------------------------------------------------------------------
(* pydantic's schema generation, as far as the inspectors depend on it *)

Title(name) ==
    CASE name = "a" -> "A"
      [] name = "b" -> "B"
      [] name = "test_field" -> "Test Field"
      [] OTHER -> name

\* create_model(name, __base__=base, **new): the base's fields, each one
\* overridden by the new definition of the same name, then the added ones
create_model(nm, base, newnames, newinfo) ==
    LET added == SelectSeq(newnames, LAMBDA f : f \notin Range(base.fields))
        fs == base.fields \o added
    IN  [base EXCEPT
            !.name = nm,
            !.fields = fs,
            !.info = [f \in Range(fs) |->
                        IF f \in Range(newnames) THEN newinfo[f]
                        ELSE base.info[f]]]

\* the empty BaseModel that create_model extends when no base is given
BaseModel == Model("pydantic.main", "BaseModel", <<>>, <<>>, <<>>, {}, {})

\* one property of the schema: the default is encoded first (TypeError when
\* it has no JSON encoding), then the type is declared (ValueError for an
\* arbitrary class); a TypeVar declares nothing but the title
field_schema(name, info) ==
    IF info.default = "Custom()" THEN Raise("TypeError")
    ELSE IF info.type_ = "Custom" THEN Raise("ValueError")
    ELSE Ok([k \in {"title"}
                 \cup (IF info.type_ = "TypeVar" THEN {} ELSE {"type"})
                 \cup (IF info.default = "None" THEN {} ELSE {"default"}) |->
             CASE k = "title" -> Title(name)
               [] k = "type" -> (IF info.type_ = "int" THEN "integer" ELSE info.type_)
               [] k = "default" -> info.default])

\* model.schema(): the first field that cannot be declared raises; once
\* every field is declared the Config.schema_extra hook runs and may raise
schema(model) ==
    LET bad == SelectSeq(model.fields,
                         LAMBDA f : Raises(field_schema(f, model.info[f])))
    IN  IF bad # <<>>
        THEN field_schema(Head(bad), model.info[Head(bad)])
        ELSE IF model.schema_extra # "none"
        THEN Raise(model.schema_extra)
        ELSE Ok([title |-> model.name,
                 type |-> "object",
                 properties |-> [f \in Range(model.fields) |->
                                    field_schema(f, model.info[f]).val]])

----------------------------------------------------------------------------
(* FieldInspector *)

\* field name -> names of the validators bound to it, "*" standing for all
validator_names_standard(model) ==
    [field \in DOMAIN model.validators |->
        get_names_from_wrappers(model.validators[field])]

validator_names_root(model) ==
    LET dict(root) == Ok([k \in {"*"} |-> root])
    IN  Bind(names_root_validators(model), dict)

validator_names(model) ==
    LET standard == validator_names_standard(model)
        complete(root) ==
            Ok(Put(standard, "*", Get(standard, "*", {}) \cup root["*"]))
    IN  Bind(validator_names_root(model), complete)

field_names(model) == model.fields

is_json_serializable_always(model, field_name) == TRUE

is_json_serializable(model, field_name) ==
    LET field == model.info[field_name]
        probe == create_model("_", BaseModel, <<"test_field">>,
                              [f \in {"test_field"} |->
                                  Info(field.type_, field.default)])
    IN  ~Raises(schema(probe))

non_json_serializable_all(model) == field_names(model)

non_json_serializable(model) ==
    SelectSeq(field_names(model),
              LAMBDA name : ~is_json_serializable(model, name))

----------------------------------------------------------------------------
(* SchemaInspector *)

create_sanitized_model_all(model) ==
    LET invalid_fields == field_names(model)
        new == [name \in Range(invalid_fields) |-> Info("TypeVar", "None")]
    IN  create_model(model.name, model, invalid_fields, new)

create_sanitized_model(model) ==
    LET invalid_fields == non_json_serializable(model)
        new == [name \in Range(invalid_fields) |-> Info("TypeVar", "None")]
    IN  create_model(model.name, model, invalid_fields, new)

\* a second attempt on the substituted model, whatever the first one raised
sanitized_run_any_error(model) ==
    LET first == schema(model)
        second == schema(create_sanitized_model(model))
    IN  IF Raises(first)
        THEN [exc |-> second.exc, val |-> second.val,
              attempts |-> <<first.exc, second.exc>>]
        ELSE [exc |-> first.exc, val |-> first.val,
              attempts |-> <<first.exc>>]

\* the body of the property sanitized, with the outcome of each call of
\* schema() it makes, in order
sanitized_run(model) ==
    LET first == schema(model)
        second == schema(create_sanitized_model(model))
    IN  IF first.exc \in {"TypeError", "ValueError"}
        THEN [exc |-> second.exc, val |-> second.val,
              attempts |-> <<first.exc, second.exc>>]
        ELSE [exc |-> first.exc, val |-> first.val,
              attempts |-> <<first.exc>>]

sanitized(model) ==
    LET run == sanitized_run(model)
    IN  [exc |-> run.exc, val |-> run.val]

----------------------------------------------------------------------------
(* ReferenceInspector *)

model_path(model) == model.module \o "." \o model.name

create_model_reference(model, name) == model_path(model) \o "." \o name

_create_mappings_asterisk(model) ==
    LET records(field_validator_names) ==
            Ok({ValidatorFieldMap("all fields", validator, TRUE,
                                  model_path(model))
                : validator \in field_validator_names["*"]})
    IN  Bind(validator_names(model), records)

_create_mappings_standard_unfiltered(model) ==
    LET refs(field, validators) ==
            {ValidatorFieldMap(field, validator, FALSE, model_path(model))
             : validator \in validators}
        references(field_validator_names) ==
            Ok(UNION {refs(field, field_validator_names[field])
                      : field \in DOMAIN field_validator_names})
    IN  Bind(validator_names(model), references)

_create_mappings_standard(model) ==
    LET refs(field, validators) ==
            {ValidatorFieldMap(field, validator, FALSE, model_path(model))
             : validator \in {v \in validators : ~is_asterisk(model, v).val}}
        references(field_validator_names) ==
            Ok(UNION {refs(field, field_validator_names[field])
                      : field \in DOMAIN field_validator_names})
    IN  Bind(validator_names(model), references)

\* ReferenceInspector.__init__: the value of self.mappings
create_mappings(model) ==
    LET mappings_asterisk == _create_mappings_asterisk(model)
        mappings_standard == _create_mappings_standard(model)
    IN  IF Raises(mappings_asterisk) THEN mappings_asterisk
        ELSE IF Raises(mappings_standard) THEN mappings_standard
        ELSE Ok(mappings_standard.val \cup mappings_asterisk.val)

filter_by_validator_name_all(mappings, name) == Listing(mappings)

filter_by_validator_name(mappings, name) ==
    SelectSeq(Listing(mappings), LAMBDA mapping : mapping.validator = name)

filter_by_field_name(mappings, name) ==
    SelectSeq(Listing(mappings),
              LAMBDA mapping : mapping.field \in {name, "all fields"})

----------------------------------------------------------------------------
(* ModelInspector *)

\* ModelInspector.__init__: the composites read the class attributes
\* Config, __fields__, __validators__, then the references are built
validator_names_dict_shared == "__validators__"

\* the dict object FieldInspector.validator_names returns: standard.copy(),
\* where standard is a dict that validator_names_standard builds anew; it is
\* never the class's own __validators__
validator_names_dict == "copy"

\* the class as ReferenceInspector.__init__ leaves it: "*" is popped from the
\* dict that validator_names returned
inspected(model) ==
    IF validator_names_dict = "__validators__"
    THEN [model EXCEPT !.validators =
             [t \in DOMAIN model.validators \ {"*"} |-> model.validators[t]]]
    ELSE model

ModelInspector(obj) ==
    IF ~is_pydantic_model(obj) THEN Raise("AttributeError")
    ELSE create_mappings(obj)

----------------------------------------------------------------------------
(* ModelWrapper *)

\* the wrapper instance: its model (by reference), the mappings its
\* ReferenceInspector computed in __init__, and the instance's own identity
Wrapper_(model_id, mappings, serial) ==
    [model |-> model_id, mappings |-> mappings, serial |-> serial]

\* ModelWrapper.factory: [exc, val] with the cache, the instance count and
\* the loaded objects the call leaves behind
factory_uncached(model_id) ==
    LET built == ModelInspector(heap[model_id])
        mapping == Wrapper_(model_id, built.val, created + 1)
    IN  IF Raises(built)
        THEN [exc |-> built.exc, val |-> {}, cache |-> CACHED,
              made |-> created, objects |-> heap]
        ELSE [exc |-> "none", val |-> mapping,
              cache |-> Put(CACHED, model_id, mapping), made |-> created + 1,
              objects |-> [heap EXCEPT ![model_id] = inspected(@)]]

factory_cache_first(model_id) ==
    LET built == ModelInspector(heap[model_id])
        mapping == Wrapper_(model_id, built.val, created + 1)
    IN  IF model_id \in DOMAIN CACHED
        THEN [exc |-> "none", val |-> CACHED[model_id],
              cache |-> CACHED, made |-> created, objects |-> heap]
        ELSE [exc |-> built.exc, val |-> mapping,
              cache |-> Put(CACHED, model_id, mapping), made |-> created + 1,
              objects |-> heap]

factory(model_id) ==
    IF model_id \in DOMAIN CACHED
    THEN [exc |-> "none", val |-> CACHED[model_id],
          cache |-> CACHED, made |-> created, objects |-> heap]
    ELSE LET built == ModelInspector(heap[model_id])
             mapping == Wrapper_(model_id, built.val, created + 1)
         IN  IF Raises(built)
             THEN [exc |-> built.exc, val |-> {},
                   cache |-> CACHED, made |-> created, objects |-> heap]
             ELSE [exc |-> "none", val |-> mapping,
                   cache |-> Put(CACHED, model_id, mapping),
                   made |-> created + 1,
                   objects |-> [heap EXCEPT ![model_id] = inspected(@)]]

get_validator_names(wrapper) == names(heap[wrapper.model])

get_fields(wrapper) == field_names(heap[wrapper.model])

get_model_path(wrapper) == model_path(heap[wrapper.model])

get_fields_for_validator_live(wrapper, validator_name) ==
    filter_by_validator_name(create_mappings(heap[wrapper.model]).val,
                             validator_name)

get_fields_for_validator(wrapper, validator_name) ==
    filter_by_validator_name(wrapper.mappings, validator_name)

get_validators_for_field(wrapper, field_name) ==
    filter_by_field_name(wrapper.mappings, field_name)

find_non_json_serializable_fields(wrapper) ==
    non_json_serializable(heap[wrapper.model])

get_safe_schema_json(wrapper) == sanitized(heap[wrapper.model])

----------------------------------------------------------------------------
(* The loaded objects *)

\* id() of the four loaded objects; None is the last
Ids == 1 .. 4

IdNone == CHOOSE i \in Ids : \A j \in Ids : j <= i

ModulePath == "target.configuration"

\* every dict target -> non-empty list of Validator wrappers, where "a" and
\* "*" have any of the validators and "b" has "v" alone
ValidatorDicts ==
    UNION {{d \in [D -> {{Wrapper(n) : n \in N}
                         : N \in SUBSET ValidatorNames \ {{}}}] :
               "b" \in D => d["b"] = {Wrapper("v")}}
           : D \in SUBSET Targets}

AllInt(fs) == [f \in Range(fs) |-> IntField]

\* classes with the fields fs and one of the validator dicts, with or without
\* a pre root validator "v" and a post root validator "w"
ClassesWith(fs, dicts) ==
    {Model(ModulePath, "ModelA", fs, AllInt(fs), vals,
           {PreRootEntry(n) : n \in pre}, {PostRootEntry(n) : n \in post})
     : vals \in dicts, pre \in SUBSET {"v"}, post \in SUBSET {"w"}}

\* classes that differ in their validators: two declared fields and any
\* bindings to them and to "*"; or one declared field and a validator of "b",
\* bound with check_fields=False to a field the class does not declare
ValidatorClasses ==
    ClassesWith(<<"a", "b">>, ValidatorDicts)
    \cup ClassesWith(<<"a">>, {d \in ValidatorDicts : "b" \in DOMAIN d})

\* classes that differ in what their fields hold
JsonClasses ==
    {Model(ModulePath, "ModelA", <<"a", "b">>, inf, <<>>, {}, {})
     : inf \in [FieldNames -> FieldInfos]}

ModelB ==
    Model(ModulePath, "ModelB", <<"a">>, AllInt(<<"a">>),
          [t \in {"a"} |-> {Wrapper("v")}], {}, {})

\* pydoc.locate: the object of that dotted path, else None
locate(mod, nm) ==
    IF \E i \in Ids : heap[i].module = mod /\ heap[i].name = nm
    THEN CHOOSE i \in Ids : heap[i].module = mod /\ heap[i].name = nm
    ELSE IdNone

\* signode["module"], and signode["fullname"] split at the dots
Signodes ==
    {[module |-> ModulePath, fullname |-> <<nm, "v">>]
     : nm \in {"ModelA", "ModelB", "Plain", "Missing"}}

----------------------------------------------------------------------------
(* Initial state: the classes are loaded, nothing is inspected yet *)

\* the objects the build can meet: the class under documentation, a second
\* model, a class that is no model, and None
\* subclasses of ModelB (id 2): they inherit its field "a" and its validator
\* "v" of "a", add the field "b", and may add a validator "w" of their own
InheritingClasses ==
    {Subclass(c, <<2>>) :
        c \in {c \in ClassesWith(<<"a", "b">>, ValidatorDicts) :
                  /\ c.pre_root = {}
                  /\ "a" \in DOMAIN c.validators
                  /\ Wrapper("v") \in c.validators["a"]
                  /\ \A t \in DOMAIN c.validators \ {"a"} :
                        c.validators[t] = {Wrapper("w")}}}

Loaded(class) == <<class, ModelB, PlainClass(ModulePath, "Plain"), None>>

Init ==
    /\ heap \in {Loaded(class) : class \in ValidatorClasses \cup JsonClasses
                                             \cup InheritingClasses}
    /\ CACHED = <<>>
    /\ created = 0
    /\ result = [op |-> "none"]
    /\ log = <<>>
    /\ rebinds = 0

----------------------------------------------------------------------------
(* Calls made by the documentation build *)

\* ModelWrapper.factory(model)
Factory(model_id) ==
    \E r \in {factory(model_id)} :
        /\ r.made <= MaxWrappers
        /\ CACHED' = r.cache
        /\ created' = r.made
        /\ result' = [op |-> "factory", obj |-> model_id, exc |-> r.exc,
                      ret |-> IF Raises(r) THEN 0 ELSE r.val.serial]
        /\ heap' = r.objects
        /\ UNCHANGED <<log, rebinds>>

\* ModelWrapper.from_signode(signode)
FromSignode(signode) ==
    LET model_name == Head(signode.fullname)
        model_id == locate(signode.module, model_name)
    IN  \E r \in {factory(model_id)} :
        /\ r.made <= MaxWrappers
        /\ CACHED' = r.cache
        /\ created' = r.made
        /\ result' = [op |-> "from_signode", obj |-> model_id, exc |-> r.exc,
                      ret |-> IF Raises(r) THEN 0 ELSE r.val.serial]
        /\ heap' = r.objects
        /\ UNCHANGED <<log, rebinds>>

\* StaticInspector.is_validator_by_name(name, obj)
IsValidatorByName(name, obj_id) ==
    IF is_pydantic_model(heap[obj_id])
    THEN \E r \in {factory(obj_id)} :
         \E found \in {IF Raises(r) THEN r
                        ELSE LET member(ns) == Ok(name \in ns)
                             IN  Bind(get_validator_names(r.val), member)} :
             /\ r.made <= MaxWrappers
             /\ CACHED' = r.cache
             /\ created' = r.made
             /\ result' = [op |-> "is_validator_by_name", obj |-> obj_id,
                           name |-> name, exc |-> found.exc,
                           ret |-> IF Raises(found) THEN FALSE ELSE found.val]
             /\ heap' = r.objects
             /\ UNCHANGED <<log, rebinds>>
    ELSE /\ result' = [op |-> "is_validator_by_name", obj |-> obj_id,
                       name |-> name, exc |-> "none", ret |-> FALSE]
         /\ UNCHANGED <<heap, CACHED, created, log, rebinds>>

\* wrapper.get_fields_for_validator(validator_name)
GetFieldsForValidator(model_id, validator_name) ==
    /\ model_id \in DOMAIN CACHED
    /\ result' = [op |-> "get_fields_for_validator", obj |-> model_id,
                  name |-> validator_name, exc |-> "none",
                  ret |-> get_fields_for_validator(CACHED[model_id],
                                                   validator_name)]
    /\ UNCHANGED <<heap, CACHED, created, log, rebinds>>

\* wrapper.get_validators_for_field(field_name)
GetValidatorsForField(model_id, field_name) ==
    /\ model_id \in DOMAIN CACHED
    /\ result' = [op |-> "get_validators_for_field", obj |-> model_id,
                  name |-> field_name, exc |-> "none",
                  ret |-> get_validators_for_field(CACHED[model_id],
                                                   field_name)]
    /\ UNCHANGED <<heap, CACHED, created, log, rebinds>>

----------------------------------------------------------------------------
(* The directives that use the wrapper (autodoc documenters) *)

Strategies == {"raise", "warn", "coerce"}

\* the application-wide value of an option (conf.py)
AppOptions(name) == [{name} -> BOOLEAN]

\* the option as given on the directive itself, if it is given
DocOptions(name) == UNION {[D -> BOOLEAN] : D \in SUBSET {name}}

get_value_app_first(name, options_app, options_doc) == options_app[name]

\* the effective value of an option of a directive
get_value(name, options_app, options_doc) ==
    IF name \in DOMAIN options_doc THEN options_doc[name]
    ELSE options_app[name]

\* the warning or error text of the JSON error strategy
error_msg(wrapper, non_serializable) ==
    [model |-> get_model_path(wrapper), fields |-> non_serializable]

\* the model documenter's JSON block: the non-serializable fields are
\* reported as the strategy says, then the safe schema is rendered
AddCollapsableSchema(model_id, strategy) ==
    /\ model_id \in DOMAIN CACHED
    /\ \E wrapper \in {CACHED[model_id]} :
       \E non_serializable \in {find_non_json_serializable_fields(wrapper)} :
          IF non_serializable # <<>> /\ strategy = "raise"
          THEN /\ result' = [op |-> "add_collapsable_schema", obj |-> model_id,
                             strategy |-> strategy, exc |-> "ExtensionError",
                             ret |-> error_msg(wrapper, non_serializable)]
               /\ log' = log
          ELSE /\ \E schema_json \in {get_safe_schema_json(wrapper)} :
                    result' = [op |-> "add_collapsable_schema",
                               obj |-> model_id, strategy |-> strategy,
                               exc |-> schema_json.exc, ret |-> schema_json.val]
               /\ IF non_serializable # <<>> /\ strategy = "warn"
                  THEN /\ Len(log) < MaxLog
                       /\ log' = Append(log, error_msg(wrapper, non_serializable))
                  ELSE log' = log
    /\ UNCHANGED <<heap, CACHED, created, rebinds>>

\* the reference a documenter renders for one mapping record
Reference(mapping) == [text |-> mapping.field, target |-> field_ref(mapping)]

\* the validator documenter's signature: the parameter list, or the
\* references to the validated fields in its place
ValidatorSignature(model_id, validator_name) ==
    /\ model_id \in DOMAIN CACHED
    /\ \E wrapper \in {CACHED[model_id]} :
       \E known \in {get_validator_names(wrapper)} :
       \E mappings \in {get_fields_for_validator(wrapper, validator_name)} :
          /\ ~Raises(known)
          /\ validator_name \in known.val
          /\ \E options_app \in AppOptions("validator-replace-signature"),
                options_doc \in DocOptions("validator-replace-signature") :
             \E replace \in {get_value("validator-replace-signature",
                                       options_app, options_doc)} :
             result' =
                [op |-> "validator_signature", obj |-> model_id,
                 name |-> validator_name,
                 options_app |-> options_app, options_doc |-> options_doc,
                 value |-> replace,
                 ret |-> IF replace
                         THEN [args |-> "", annotation |-> "  »  ",
                               refs |-> [i \in DOMAIN mappings |->
                                            Reference(mappings[i])]]
                         ELSE [args |-> "(v) -> str", annotation |-> "",
                               refs |-> <<>>]]
    /\ UNCHANGED <<heap, CACHED, created, log, rebinds>>

\* the validator documenter's content: the "Validates" list
ValidatorFieldList(model_id, validator_name) ==
    /\ model_id \in DOMAIN CACHED
    /\ \E wrapper \in {CACHED[model_id]} :
       \E known \in {get_validator_names(wrapper)} :
       \E mappings \in {get_fields_for_validator(wrapper, validator_name)} :
          /\ ~Raises(known)
          /\ validator_name \in known.val
          /\ \E options_app \in AppOptions("validator-list-fields"),
                options_doc \in DocOptions("validator-list-fields") :
             \E list_fields \in {get_value("validator-list-fields",
                                           options_app, options_doc)} :
             result' =
                [op |-> "validator_field_list", obj |-> model_id,
                 name |-> validator_name,
                 options_app |-> options_app, options_doc |-> options_doc,
                 value |-> list_fields,
                 ret |-> IF list_fields
                         THEN [i \in DOMAIN mappings |-> Reference(mappings[i])]
                         ELSE <<>>]
    /\ UNCHANGED <<heap, CACHED, created, log, rebinds>>

\* the fields and the validators that the models a class inherits from have
base_fields(model) == UNION {Range(heap[b].fields) : b \in Range(model.mro)}

base_validators(model) == UNION {names(heap[b]).val : b \in Range(model.mro)}

is_summary_member_always(inherited_members, name, inherited) == TRUE

\* a summary lists a member of a base model only under :inherited-members:
is_summary_member(inherited_members, name, inherited) ==
    inherited_members \/ name \notin inherited

\* the model documenter's summaries: the ":Fields:" list, and the
\* ":Validators:" list with one entry per validator and validated field
ModelSummary(model_id, inherited_members) ==
    /\ model_id \in DOMAIN CACHED
    /\ \E wrapper \in {CACHED[model_id]} :
       \E fields \in {base_fields(heap[model_id])},
          validators \in {base_validators(heap[model_id])} :
          result' =
             [op |-> "model_summary", obj |-> model_id,
              inherited_members |-> inherited_members,
              fields |-> SelectSeq(get_fields(wrapper),
                            LAMBDA f : is_summary_member(inherited_members,
                                                         f, fields)),
              validators |->
                 SelectSeq(Listing(wrapper.mappings),
                    LAMBDA r : is_summary_member(inherited_members,
                                                 r.validator, validators))]
    /\ UNCHANGED <<heap, CACHED, created, log, rebinds>>

----------------------------------------------------------------------------
(* A loaded class changed in place *)

\* cls.__validators__[target] gains the validator, or loses it
toggle(validators, target, name) ==
    LET old == Get(validators, target, {})
        new == IF Wrapper(name) \in old THEN old \ {Wrapper(name)}
               ELSE old \cup {Wrapper(name)}
    IN  IF new = {}
        THEN [t \in DOMAIN validators \ {target} |-> validators[t]]
        ELSE Put(validators, target, new)

Rebind(model_id, target, name) ==
    /\ rebinds < MaxRebinds
    /\ is_pydantic_model(heap[model_id])
    /\ heap' = [heap EXCEPT ![model_id].validators = toggle(@, target, name)]
    /\ rebinds' = rebinds + 1
    /\ result' = [op |-> "rebind", obj |-> model_id]
    /\ UNCHANGED <<CACHED, created, log>>

----------------------------------------------------------------------------
(* A class defined again while the build runs *)

address_is_free_always(model_id) == TRUE

\* id() of an object is given to another object only after the first one is
\* gone; a wrapper holds its class in self.model and CACHED holds the
\* wrapper, so the id of a cached class is never free
address_is_free(model_id) ==
    \A m \in DOMAIN CACHED : CACHED[m].model # model_id

\* the class statement runs again (its module is reloaded): the new class
\* object, with other validators, gets the id of the old one if that id is
\* free; otherwise the old object stays where it is and the new one is
\* another object
Redefine(model_id, target, name) ==
    /\ rebinds < MaxRebinds
    /\ is_pydantic_model(heap[model_id])
    /\ address_is_free(model_id)
    /\ heap' = [heap EXCEPT ![model_id].validators = toggle(@, target, name)]
    /\ rebinds' = rebinds + 1
    /\ result' = [op |-> "redefine", obj |-> model_id]
    /\ UNCHANGED <<CACHED, created, log>>

----------------------------------------------------------------------------

Next ==
    \/ \E model_id \in Ids : Factory(model_id)
    \/ \E signode \in Signodes : FromSignode(signode)
    \/ \E name \in ValidatorNames, obj_id \in Ids : IsValidatorByName(name, obj_id)
    \/ \E model_id \in Ids, name \in ValidatorNames :
          GetFieldsForValidator(model_id, name)
    \/ \E model_id \in Ids, name \in FieldNames :
          GetValidatorsForField(model_id, name)
    \/ \E model_id \in Ids, strategy \in Strategies :
          AddCollapsableSchema(model_id, strategy)
    \/ \E model_id \in Ids, name \in ValidatorNames :
          ValidatorSignature(model_id, name)
    \/ \E model_id \in Ids, name \in ValidatorNames :
          ValidatorFieldList(model_id, name)
    \/ \E model_id \in Ids, inherited_members \in BOOLEAN :
          ModelSummary(model_id, inherited_members)

Spec == Init /\ [][Next]_vars

\* the classes the build starts from when they are changed while it runs
LiveClasses ==
    {c \in ValidatorClasses :
        /\ c.fields = <<"a", "b">>
        /\ c.pre_root = {} /\ c.post_root = {}
        /\ DOMAIN c.validators \subseteq {"a"}}

InitLive == Init /\ heap[1] \in LiveClasses

NextLive ==
    \/ \E model_id \in Ids : Factory(model_id)
    \/ \E model_id \in Ids, name \in ValidatorNames :
          GetFieldsForValidator(model_id, name)
    \/ \E model_id \in Ids, name \in FieldNames :
          GetValidatorsForField(model_id, name)
    \/ \E model_id \in Ids, target \in Targets, name \in ValidatorNames :
          Rebind(model_id, target, name)

SpecLive == InitLive /\ [][NextLive]_vars

----------------------------------------------------------------------------
(* What the claims speak of, read off the class itself *)

\* the validator names bound to a target in the class's __validators__
BoundTo(model, target) ==
    {n \in ValidatorNames : Wrapper(n) \in Get(model.validators, target, {})}

NamedTargets(model) == DOMAIN model.validators \ {"*"}

PreRootNames(model) == {w.name : w \in model.pre_root}

PostRootNames(model) == {w.name : w \in model.post_root}

\* bound to "*", or a pre root validator, or a post root validator
AsteriskNames(model) ==
    BoundTo(model, "*") \cup PreRootNames(model) \cup PostRootNames(model)

\* bound to a named field and not asterisk
StandardNames(model) ==
    UNION {BoundTo(model, t) : t \in NamedTargets(model)} \ AsteriskNames(model)

\* the field's type or default has no JSON form
NotSerializable(model, f) ==
    model.info[f].type_ = "Custom" \/ model.info[f].default = "Custom()"

NotSerializableFields(model) ==
    SelectSeq(model.fields, LAMBDA f : NotSerializable(model, f))

Count(s, x) == Cardinality({i \in DOMAIN s : s[i] = x})

FactoryOps == {"factory", "from_signode"}

QueryOps == {"get_fields_for_validator", "get_validators_for_field"}

----------------------------------------------------------------------------
(* C1 *)

\* C1: in every inspector's mappings, each record's field is a field declared
\* on the model or the wildcard "all fields".
C1_RecordFieldsDeclared ==
    \A m \in DOMAIN CACHED : \A r \in CACHED[m].mappings :
        r.field \in Range(heap[m].fields) \cup {"all fields"}

----------------------------------------------------------------------------
(* C2 *)

RecordsOf(mappings, v) == {r \in mappings : r.validator = v}

\* C2: a validator is asterisk exactly when it is bound to "*" or is a pre or
\* a post root validator; the inspector of every model gives each asterisk
\* validator exactly one record, ("all fields", is_asterisk), and gives the
\* other validators only records that are not asterisk.
C2_AsteriskClassification ==
    (result.op = "factory" /\ is_pydantic_model(heap[result.obj])) =>
        /\ result.exc = "none"
        /\ result.obj \in DOMAIN CACHED
        /\ LET model == heap[result.obj]
               mappings == CACHED[result.obj].mappings
           IN  \A v \in ValidatorNames :
                 /\ is_asterisk(model, v) = Ok(v \in AsteriskNames(model))
                 /\ v \in AsteriskNames(model) =>
                       RecordsOf(mappings, v) =
                           {ValidatorFieldMap("all fields", v, TRUE,
                                              model_path(model))}
                 /\ v \notin AsteriskNames(model) =>
                       \A r \in RecordsOf(mappings, v) : ~r.is_asterisk

----------------------------------------------------------------------------
(* C3 *)

\* C3: once factory has cached a wrapper for a model, the entry is never
\* removed or replaced, and every later factory call for that model (direct,
\* from_signode or is_validator_by_name) hands out that same wrapper without
\* constructing one, whatever was built for other models meanwhile.
C3_BuiltOncePerModel ==
    [][\A m \in DOMAIN CACHED :
          /\ m \in DOMAIN CACHED'
          /\ CACHED'[m] = CACHED[m]
          /\ (result'.op \in FactoryOps \cup {"is_validator_by_name"}
              /\ result'.obj = m) =>
                 /\ created' = created
                 /\ result'.exc = "none"
                 /\ result'.op \in FactoryOps =>
                       result'.ret = CACHED[m].serial]_vars

\* a second model was wrapped in between, and the call returned the first one
C3_Witness ==
    /\ result.op \in FactoryOps
    /\ result.exc = "none"
    /\ created = 2
    /\ result.ret = 1
    /\ CACHED[result.obj].serial = 1

----------------------------------------------------------------------------
(* C4 *)

\* what the queries would return from the bindings the class has now
LiveRecords(model_id) == create_mappings(heap[model_id]).val

\* C4 (as claimed): the records a query returns are those of the bindings
\* the model has at the time of the call.
C4_RecordsFollowLiveBindings ==
    /\ result.op = "get_fields_for_validator" =>
          Range(result.ret) =
              {r \in LiveRecords(result.obj) : r.validator = result.name}
    /\ result.op = "get_validators_for_field" =>
          Range(result.ret) =
              {r \in LiveRecords(result.obj) :
                  r.field \in {result.name, "all fields"}}

\* C4 (amended): the records are computed once, from the bindings the model
\* has when its wrapper is constructed; they are kept unchanged afterwards,
\* and every query answers from them, also after the bindings changed.
C4_RecordsAsBuilt ==
    [][/\ \A m \in DOMAIN CACHED' \ DOMAIN CACHED :
             CACHED'[m].mappings = create_mappings(heap[m]).val
       /\ \A m \in DOMAIN CACHED :
             /\ m \in DOMAIN CACHED'
             /\ CACHED'[m].mappings = CACHED[m].mappings
       /\ result'.op = "get_fields_for_validator" =>
             Range(result'.ret) =
                 {r \in CACHED[result'.obj].mappings :
                     r.validator = result'.name}
       /\ result'.op = "get_validators_for_field" =>
             Range(result'.ret) =
                 {r \in CACHED[result'.obj].mappings :
                     r.field \in {result'.name, "all fields"}}]_vars

\* a query answered by a wrapper built before the bindings changed
C4_Witness ==
    /\ result.op \in QueryOps
    /\ CACHED[result.obj].mappings # LiveRecords(result.obj)
    /\ Range(result.ret) # {}

----------------------------------------------------------------------------
(* C5 *)

\* C5: for every binding of a standard validator v to a named field f the
\* mappings hold exactly one record (f, v), returned once by
\* get_fields_for_validator(v) and once by get_validators_for_field(f); a
\* validator bound to k named fields has k records, a field with k standard
\* validators has k records, and the queries return records of the mappings.
C5_ManyToMany ==
    \A m \in DOMAIN CACHED :
        LET model == heap[m]
            wrapper == CACHED[m]
            record(f, v) == ValidatorFieldMap(f, v, FALSE, model_path(model))
        IN  /\ \A f \in NamedTargets(model) :
                 \A v \in BoundTo(model, f) \cap StandardNames(model) :
                    /\ {r \in wrapper.mappings :
                           r.field = f /\ r.validator = v} = {record(f, v)}
                    /\ Count(get_fields_for_validator(wrapper, v),
                             record(f, v)) = 1
                    /\ Count(get_validators_for_field(wrapper, f),
                             record(f, v)) = 1
            /\ \A v \in StandardNames(model) :
                 Len(get_fields_for_validator(wrapper, v)) =
                     Cardinality({f \in NamedTargets(model) :
                                     v \in BoundTo(model, f)})
            /\ \A f \in FieldNames :
                 Cardinality({r \in wrapper.mappings : r.field = f}) =
                     Cardinality(BoundTo(model, f) \cap StandardNames(model))
            /\ \A v \in ValidatorNames :
                 Range(get_fields_for_validator(wrapper, v))
                     \subseteq wrapper.mappings
            /\ \A f \in FieldNames :
                 Range(get_validators_for_field(wrapper, f))
                     \subseteq wrapper.mappings

\* one validator on two fields and one field with two validators, queried
C5_Witness ==
    /\ result.op = "get_fields_for_validator"
    /\ Len(result.ret) = 2
    /\ \E f \in FieldNames :
          Cardinality(BoundTo(heap[result.obj], f)
                      \cap StandardNames(heap[result.obj])) = 2

----------------------------------------------------------------------------
(* C6 *)

\* C6: when the schema of a model cannot be generated because of a field,
\* get_safe_schema_json returns a schema all the same; in it every field of
\* the model is a property, a field that is not JSON serializable carries
\* only its title, and every other field keeps its declared type.
C6_SafeSchema ==
    \A m \in DOMAIN CACHED :
        LET model == heap[m]
            safe == get_safe_schema_json(CACHED[m])
        IN  schema(model).exc \in {"TypeError", "ValueError"} =>
              /\ safe.exc = "none"
              /\ DOMAIN safe.val.properties = Range(model.fields)
              /\ \A f \in Range(model.fields) :
                    LET property == safe.val.properties[f]
                    IN  IF NotSerializable(model, f)
                        THEN /\ DOMAIN property = {"title"}
                             /\ property["title"] = Title(f)
                        ELSE /\ "type" \in DOMAIN property
                             /\ property = field_schema(f, model.info[f]).val
              /\ (result.op = "add_collapsable_schema" /\ result.obj = m
                  /\ result.exc = "none") => result.ret = safe.val

\* the safe schema of a model with one field that serializes and one that
\* does not has been rendered
C6_Witness ==
    /\ result.op = "add_collapsable_schema"
    /\ result.exc = "none"
    /\ heap[result.obj].fields = <<"a", "b">>
    /\ NotSerializable(heap[result.obj], "b")
    /\ ~NotSerializable(heap[result.obj], "a")
    /\ DOMAIN result.ret.properties["b"] = {"title"}
    /\ "type" \in DOMAIN result.ret.properties["a"]

----------------------------------------------------------------------------
(* C7 *)

\* C7: with the strategy "raise", the JSON block of a model that has a
\* non-serializable field ends in an extension error, and no schema is
\* produced.
C7_RaiseStrategy ==
    (/\ result.op = "add_collapsable_schema"
     /\ result.strategy = "raise"
     /\ NotSerializableFields(heap[result.obj]) # <<>>) =>
        /\ result.exc = "ExtensionError"
        /\ "properties" \notin DOMAIN result.ret

C7_Witness ==
    /\ result.op = "add_collapsable_schema"
    /\ result.strategy = "raise"
    /\ NotSerializableFields(heap[result.obj]) # <<>>
    /\ result.exc = "ExtensionError"

----------------------------------------------------------------------------
(* C8 *)

\* C8: with the strategy "warn" or "coerce", the JSON block of a model that
\* has a non-serializable field completes without error; "warn" logs one
\* warning, which names the model and lists exactly its non-serializable
\* fields, and "coerce" logs nothing.
C8_WarnAndCoerce ==
    [][(/\ result'.op = "add_collapsable_schema"
        /\ result'.strategy \in {"warn", "coerce"}
        /\ NotSerializableFields(heap[result'.obj]) # <<>>) =>
           LET model == heap[result'.obj]
           IN  /\ result'.exc = "none"
               /\ "properties" \in DOMAIN result'.ret
               /\ result'.strategy = "warn" =>
                     log' = Append(log,
                                   [model |-> model.module \o "." \o model.name,
                                    fields |-> NotSerializableFields(model)])
               /\ result'.strategy = "coerce" => log' = log]_vars

\* a warning about a model of which one field of two does not serialize
C8_Witness ==
    /\ result.op = "add_collapsable_schema"
    /\ result.strategy = "warn"
    /\ result.exc = "none"
    /\ log = <<[model |-> "target.configuration.ModelA", fields |-> <<"b">>]>>

----------------------------------------------------------------------------
(* C9 *)

OptionOf(op) ==
    IF op = "validator_signature" THEN "validator-replace-signature"
    ELSE "validator-list-fields"

\* C9: the effective value of validator-replace-signature and of
\* validator-list-fields is the directive's own option whenever it is given,
\* whatever the application-wide value; the application-wide value applies
\* only when the directive gives none.
C9_LocalOverridesApp ==
    result.op \in {"validator_signature", "validator_field_list"} =>
        LET option == OptionOf(result.op)
        IN  /\ option \in DOMAIN result.options_doc =>
                  result.value = result.options_doc[option]
            /\ option \notin DOMAIN result.options_doc =>
                  result.value = result.options_app[option]
            /\ result.op = "validator_signature" =>
                  result.value = (result.ret.args = "")
            /\ result.op = "validator_field_list" =>
                  result.value = (result.ret # <<>>)

\* the directive switches on what the configuration switches off
C9_Witness ==
    /\ result.op = "validator_signature"
    /\ result.options_app = [o \in {"validator-replace-signature"} |-> FALSE]
    /\ result.options_doc = [o \in {"validator-replace-signature"} |-> TRUE]
    /\ result.ret.args = ""
    /\ result.ret.refs # <<>>

----------------------------------------------------------------------------
(* C10 *)

\* C10: for every mapping record the validator reference is
\* "<module>.<model name>.<validator name>", and the field reference is
\* "<module>.<model name>.<field name>" when the record is not asterisk and
\* "<module>.<model name>" when it is.
C10_References ==
    \A m \in DOMAIN CACHED : \A r \in CACHED[m].mappings :
        LET path == heap[m].module \o "." \o heap[m].name
        IN  /\ r.model_path = path
            /\ validator_ref(r) = path \o "." \o r.validator
            /\ field_ref(r) = IF r.is_asterisk THEN path
                              ELSE path \o "." \o r.field

\* a wrapper holding an asterisk record and a record of a named field
C10_Witness ==
    \E m \in DOMAIN CACHED :
        /\ \E r \in CACHED[m].mappings :
              r.is_asterisk /\ field_ref(r) = "target.configuration.ModelA"
        /\ \E r \in CACHED[m].mappings :
              ~r.is_asterisk /\ field_ref(r) = "target.configuration.ModelA.a"

----------------------------------------------------------------------------
(* C11 *)

\* the references a documenter is to render for a validator: one per record
\* of that validator in the wrapper's mappings
ExpectedReferences(model_id, validator_name) ==
    {[text |-> r.field,
      target |-> IF r.is_asterisk THEN r.model_path
                 ELSE r.model_path \o "." \o r.field]
     : r \in RecordsOf(CACHED[model_id].mappings, validator_name)}

----------------------------------------------------------------------------
(* C12 *)

\* C12: with validator-list-fields true, the "Validates" list of a validator
\* has exactly one entry per record that get_fields_for_validator returns
\* for it, in that order, each one naming the record's field and linking to
\* the record's field reference; with the option false there is no list.
C12_ListFields ==
    result.op = "validator_field_list" =>
        LET path == heap[result.obj].module \o "." \o heap[result.obj].name
            records == get_fields_for_validator(CACHED[result.obj],
                                                result.name)
        IN  IF result.value
            THEN /\ Len(result.ret) = Len(records)
                 /\ Len(records) >= 1
                 /\ \A i \in DOMAIN records :
                       /\ result.ret[i].text = records[i].field
                       /\ result.ret[i].target =
                             IF records[i].is_asterisk THEN path
                             ELSE path \o "." \o records[i].field
            ELSE result.ret = <<>>

\* the list of a validator that validates two fields
C12_Witness ==
    /\ result.op = "validator_field_list"
    /\ result.value
    /\ {x.target : x \in Range(result.ret)} =
           {"target.configuration.ModelA.a", "target.configuration.ModelA.b"}

----------------------------------------------------------------------------
(* C13 *)

\* the fields and validator names a class has from the models it inherits
InheritedFields(model) ==
    {f \in Range(model.fields) :
        \E b \in Range(model.mro) : f \in Range(heap[b].fields)}

InheritedValidators(model) ==
    {v \in ValidatorNames :
        \E b \in Range(model.mro) :
           v \in UNION {BoundTo(heap[b], t) : t \in DOMAIN heap[b].validators}
                 \cup PostRootNames(heap[b])}

\* C13: the field summary and the validator summary of a model list the
\* fields and validators defined on the class itself; those inherited from a
\* base model are listed if and only if inherited-members is given, and then
\* together with the class's own.
C13_SummaryInheritedMembers ==
    result.op = "model_summary" =>
        LET model == heap[result.obj]
            all_fields == Range(model.fields)
            all_validators == {r.validator : r \in CACHED[result.obj].mappings}
            listed == {r.validator : r \in Range(result.validators)}
        IN  /\ Len(result.fields) = Cardinality(Range(result.fields))
            /\ Range(result.validators) \subseteq CACHED[result.obj].mappings
            /\ IF result.inherited_members
               THEN /\ Range(result.fields) = all_fields
                    /\ Range(result.validators) = CACHED[result.obj].mappings
               ELSE /\ Range(result.fields) =
                          all_fields \ InheritedFields(model)
                    /\ listed = all_validators \ InheritedValidators(model)
                    /\ \A r \in CACHED[result.obj].mappings :
                          r.validator \in listed =>
                              r \in Range(result.validators)

\* the summaries of a subclass that has a field and a validator of its own
\* beside the inherited ones, without inherited-members
C13_Witness ==
    /\ result.op = "model_summary"
    /\ ~result.inherited_members
    /\ heap[result.obj].mro # <<>>
    /\ result.fields = <<"b">>
    /\ {r.validator : r \in Range(result.validators)} = {"w"}
    /\ {r.validator : r \in CACHED[result.obj].mappings} = {"v", "w"}

----------------------------------------------------------------------------
(* C14 *)

NoStarBinding(model) == "*" \notin DOMAIN model.validators

NoRootValidators(model) == model.pre_root = {} /\ model.post_root = {}

NoValidators(model) == DOMAIN model.validators = {} /\ NoRootValidators(model)

\* C14: for a model with no "*" validators, or no root validators, or no
\* validators at all, constructing the inspector succeeds; the map from
\* fields to validator names has a "*" entry, empty when there is no asterisk
\* validator; and the asterisk names, the standard names and the records are
\* each empty exactly when the model has no binding of that kind.
C14_AbsentIsEmpty ==
    (/\ result.op = "factory"
     /\ is_pydantic_model(heap[result.obj])
     /\ \/ NoStarBinding(heap[result.obj])
        \/ NoRootValidators(heap[result.obj])
        \/ NoValidators(heap[result.obj])) =>
        LET model == heap[result.obj]
        IN  /\ result.exc = "none"
            /\ result.obj \in DOMAIN CACHED
            /\ validator_names(model).exc = "none"
            /\ "*" \in DOMAIN validator_names(model).val
            /\ validator_names(model).val["*"] = AsteriskNames(model)
            /\ names_asterisk_validators(model).exc = "none"
            /\ (names_asterisk_validators(model).val = {})
                  = (AsteriskNames(model) = {})
            /\ names_standard_validators(model).exc = "none"
            /\ (names_standard_validators(model).val = {})
                  = (StandardNames(model) = {})
            /\ (CACHED[result.obj].mappings = {}) = NoValidators(model)

----------------------------------------------------------------------------
(* C15 *)

\* the names asked about: the two field names and one that no class declares
AskedNames == FieldNames \cup {"c"}

\* C15: get_validators_for_field(name) returns, each once, the standard
\* records whose field is name and every asterisk record of the model; so
\* for a name that is not a declared field it returns exactly the asterisk
\* records.
C15_ValidatorsForField ==
    /\ \A m \in DOMAIN CACHED : \A name \in AskedNames :
          LET mappings == CACHED[m].mappings
              ret == get_validators_for_field(CACHED[m], name)
              asterisk == {r \in mappings : r.is_asterisk}
          IN  /\ Len(ret) = Cardinality(Range(ret))
              /\ Range(ret) =
                    {r \in mappings : ~r.is_asterisk /\ r.field = name}
                        \cup asterisk
              /\ name \notin Range(heap[m].fields) => Range(ret) = asterisk
    /\ result.op = "get_validators_for_field" =>
          result.ret = get_validators_for_field(CACHED[result.obj],
                                                result.name)

----------------------------------------------------------------------------
(* C16 *)

\* every validator name the class has, wherever it is bound
AllNames(model) ==
    UNION {BoundTo(model, t) : t \in DOMAIN model.validators}
        \cup PreRootNames(model) \cup PostRootNames(model)

\* C16: for every model the standard names and the asterisk names are
\* disjoint and together are all the validator names; a name bound to a
\* named field and also to "*", or also a root validator, is asterisk only
\* and has no record for the named field.
C16_StandardAsteriskPartition ==
    (result.op = "factory" /\ is_pydantic_model(heap[result.obj])) =>
        LET model == heap[result.obj]
            standard == names_standard_validators(model)
            asterisk == names_asterisk_validators(model)
            all == names(model)
        IN  /\ standard.exc = "none" /\ asterisk.exc = "none"
            /\ all.exc = "none"
            /\ standard.val \cap asterisk.val = {}
            /\ standard.val \cup asterisk.val = all.val
            /\ all.val = AllNames(model)
            /\ result.exc = "none"
            /\ \A v \in AsteriskNames(model) :
                  /\ v \in asterisk.val
                  /\ v \notin standard.val
                  /\ \A r \in RecordsOf(CACHED[result.obj].mappings, v) :
                        r.is_asterisk /\ r.field = "all fields"

----------------------------------------------------------------------------
(* C17 *)

\* C17: in a constructed inspector the validator names that occur in the
\* mapping records are exactly the names get_validator_names returns, which
\* are the validator names of the model: each has a record, and no record
\* names anything else.
C17_RecordsCoverNames ==
    \A m \in DOMAIN CACHED :
        LET recorded == {r.validator : r \in CACHED[m].mappings}
            known == get_validator_names(CACHED[m])
        IN  /\ known.exc = "none"
            /\ recorded = known.val
            /\ recorded = AllNames(heap[m])

\* a wrapper whose records name a standard and an asterisk validator
C17_Witness ==
    \E m \in DOMAIN CACHED :
        /\ get_validator_names(CACHED[m]).val = {"v", "w"}
        /\ \E r \in CACHED[m].mappings : r.is_asterisk
        /\ \E r \in CACHED[m].mappings : ~r.is_asterisk

----------------------------------------------------------------------------
(* C18 *)

\* C18: constructing a wrapper and calling its queries, in any order and any
\* number of times, leaves every model's fields, its validator bindings (the
\* "*" entry included) and its root validator lists as they were.
C18_ModelUntouched ==
    [][\A i \in Ids :
          /\ heap'[i].fields = heap[i].fields
          /\ heap'[i].info = heap[i].info
          /\ heap'[i].validators = heap[i].validators
          /\ heap'[i].pre_root = heap[i].pre_root
          /\ heap'[i].post_root = heap[i].post_root]_vars

\* a model with a "*" binding was wrapped and queried, and still has it
C18_Witness ==
    /\ result.op \in QueryOps
    /\ "*" \in DOMAIN heap[result.obj].validators
    /\ \E r \in Range(result.ret) : r.is_asterisk

----------------------------------------------------------------------------
(* C19 *)

NextReload ==
    \/ \E model_id \in Ids : Factory(model_id)
    \/ \E signode \in Signodes : FromSignode(signode)
    \/ \E model_id \in Ids, name \in ValidatorNames :
          GetFieldsForValidator(model_id, name)
    \/ \E model_id \in Ids, target \in Targets, name \in ValidatorNames :
          Redefine(model_id, target, name)

\* the build with classes that are defined again while it runs
SpecReload == InitLive /\ [][NextReload]_vars

\* C19: whatever factory calls and redefinitions of classes happened, a
\* class that has a cached wrapper is never replaced under its id, and the
\* wrapper factory(m) returns is the one cached under m's id, holds m, and
\* was built from the class that is m now.
C19_WrapperOfItsModel ==
    [][/\ \A m \in DOMAIN CACHED : heap'[m] = heap[m]
       /\ (result'.op \in FactoryOps /\ result'.exc = "none") =>
             LET wrapper == CACHED'[result'.obj]
             IN  /\ wrapper.model = result'.obj
                 /\ wrapper.serial = result'.ret
                 /\ wrapper.mappings = create_mappings(heap'[result'.obj]).val
      ]_vars

\* a class was defined again before its first wrapper was built, and a later
\* call got that wrapper from the cache after another one was built
C19_Witness ==
    /\ result.op \in FactoryOps
    /\ result.exc = "none"
    /\ rebinds >= 1
    /\ created = 2
    /\ result.ret = 1
    /\ CACHED[result.obj].mappings # {}

----------------------------------------------------------------------------
(* C20 *)

BuildOps == FactoryOps \cup {"is_validator_by_name"}

\* C20: when building a wrapper fails, as it does for an object that is not
\* a model or that from_signode did not find, the error reaches the caller,
\* the cache stays as it was with no entry for that object, and a later call
\* for the object tries to build again.
C20_FailedBuildLeavesCache ==
    [][/\ (result'.op \in FactoryOps
           /\ ~is_pydantic_model(heap[result'.obj])) =>
              result'.exc = "AttributeError"
       /\ (result'.op \in BuildOps /\ result'.exc # "none") =>
              /\ CACHED' = CACHED
              /\ created' = created
              /\ result'.obj \notin DOMAIN CACHED'
       /\ (result.op \in FactoryOps /\ result.exc # "none"
           /\ result'.op \in FactoryOps /\ result'.obj = result.obj) =>
              result'.exc = result.exc]_vars

\* from_signode found nothing; the wrapper built before stays cached, and
\* nothing is cached for what was not found
C20_Witness ==
    /\ result.op = "from_signode"
    /\ result.obj = IdNone
    /\ result.exc = "AttributeError"
    /\ created >= 1
    /\ IdNone \notin DOMAIN CACHED

----------------------------------------------------------------------------
(* C21 *)

\* C21: is_validator_by_name(name, obj) returns false, and caches nothing,
\* when obj is not a class or is a class that is not a model; for a model it
\* returns true exactly when name is one of the model's validator names,
\* standard or asterisk, root validators included.
C21_IsValidatorByName ==
    result.op = "is_validator_by_name" =>
        /\ result.exc = "none"
        /\ IF is_pydantic_model(heap[result.obj])
           THEN result.ret = (result.name \in AllNames(heap[result.obj]))
           ELSE /\ result.ret = FALSE
                /\ result.obj \notin DOMAIN CACHED

(* C22 *)
\* ModelWrapper.get_safe_schema_json of a cached wrapper, with the calls of
\* schema() the schema inspector made for it
GetSafeSchemaJson(model_id) ==
    /\ model_id \in DOMAIN CACHED
    /\ \E run \in {sanitized_run(heap[CACHED[model_id].model])} :
          result' = [op |-> "get_safe_schema_json", obj |-> model_id,
                     exc |-> run.exc, ret |-> run.val,
                     attempts |-> run.attempts]
    /\ UNCHANGED <<heap, CACHED, created, log, rebinds>>

\* the errors a Config.schema_extra hook raises here: none, one the schema
\* inspector handles and one it does not
SchemaExtras == {"none", "ValueError", "KeyError"}

\* classes whose schema generation fails in a field, in the hook, in both
\* or not at all
SchemaClasses ==
    {WithSchemaExtra(class, error) : class \in JsonClasses,
                                     error \in SchemaExtras}

InitSchema ==
    /\ heap \in {Loaded(class) : class \in SchemaClasses}
    /\ CACHED = <<>>
    /\ created = 0
    /\ result = [op |-> "none"]
    /\ log = <<>>
    /\ rebinds = 0

NextSchema ==
    \/ \E model_id \in Ids : Factory(model_id)
    \/ \E model_id \in Ids, strategy \in Strategies :
          AddCollapsableSchema(model_id, strategy)
    \/ \E model_id \in Ids : GetSafeSchemaJson(model_id)

\* the build of the JSON blocks of classes whose schema may fail
SpecSchema == InitSchema /\ [][NextSchema]_vars

\* what the first call of schema() on the class raises, read off the class:
\* the error of its first field without a JSON form (TypeError for the
\* default, ValueError for the type), else that of its hook
FirstError(model) ==
    LET bad == NotSerializableFields(model)
    IN  IF bad = <<>> THEN model.schema_extra
        ELSE IF model.info[Head(bad)].default = "Custom()" THEN "TypeError"
        ELSE "ValueError"

\* C22: the safe schema first asks the model itself for its schema; only when
\* that raises TypeError or ValueError does it ask once more, on the model
\* with its non-serializable fields substituted; whatever else the first
\* attempt raises, and whatever the second attempt raises, reaches the caller.
C22_TwoAttemptsAtMost ==
    result.op = "get_safe_schema_json" =>
        LET model == heap[result.obj]
            first == FirstError(model)
        IN  /\ Len(result.attempts) \in {1, 2}
            /\ result.attempts[1] = first
            /\ Len(result.attempts) = 2 <=> first \in {"TypeError", "ValueError"}
            /\ result.exc = result.attempts[Len(result.attempts)]
            /\ (Len(result.attempts) = 2 /\ model.schema_extra # "none")
                  => result.exc = model.schema_extra

\* a hook raised ValueError in a class without non-serializable fields: the
\* second attempt was made, raised again, and the caller got that error
C22_Witness ==
    /\ result.op = "get_safe_schema_json"
    /\ heap[result.obj].schema_extra = "ValueError"
    /\ NotSerializableFields(heap[result.obj]) = <<>>
    /\ result.attempts = <<"ValueError", "ValueError">>
    /\ result.exc = "ValueError"

====
